---- MODULE Spec2Model ----
(***************************************************************************)
(* Model of the Spot square-path starter template:                         *)
(*   robot_connection.py    SpotRobotConnection (session, lease, power)    *)
(*   square_movement.py     SquarePathWalker (stand, square waypoints)     *)
(*   square_path_example.py main() driver and the command-line entry       *)
(*                                                                         *)
(* Every SDK call is a synchronous round trip whose outcome is chosen by   *)
(* the environment: "ok", "err" (an Exception subclass is raised) or "kbi" *)
(* (a KeyboardInterrupt, which is a BaseException and is NOT caught by     *)
(* `except Exception`).                                                    *)
(***************************************************************************)
EXTENDS Integers, Sequences, FiniteSets, TLC

\* ------------------------------------------------------------------ bounds
\* Largest side length drawn for the square (metres, integer).
MaxSide == 2
\* The device's starting position is drawn from -MaxPos..MaxPos on each axis.
MaxPos == 1
\* Rotations are the primitive integer points <<c, s>> with c^2 + s^2 = d^2
\* for some d in 1..MaxHyp, i.e. cos = c/d and sin = s/d (quarter turns at
\* d = 1, the 3-4-5 angles at d = 5); world coordinates of a pose are kept
\* in units of 1/d so that rotated points stay integers.
MaxHyp == 5
\* Keep-alive objects one connection object may create (SpecConn only).
MaxKeepAlives == 2
\* Command ids the device may return are 0..MaxCmdId.
MaxCmdId == 1
\* total_time, in tenths of a second, is drawn from 1, MaxTime and main()'s
\* 20 s in SpecWalk.
MaxTime == 9
\* Method calls made on one connection object in SpecConn.
MaxCalls == 6
\* A keep-alive's __exit__ is let to raise only while it ran fewer than
\* MaxExits times (caps the exitCalls counters of SpecConn).
MaxExits == 2

\* --------------------------------------------------------------- constants
\* total_time passed by main() to walk_square, in seconds
MainTotalTime == 20

VARIABLES
    \* --- SpotRobotConnection fields (None is FALSE / 0)
    sdk,              \* self.sdk is set
    robot,            \* self.robot is set
    clients,          \* how many of the 4 service clients are assigned (in order)
    lease_keepalive,  \* 0 = None, k > 0 = the k-th LeaseKeepAlive object
    \* --- the device / SDK side
    kaCount,          \* keep-alive objects constructed so far
    leaseOwner,       \* 0 = lease free, k = held through keep-alive k
    exitCalls,        \* [k -> number of times keep-alive k's __exit__ ran]
    returns,          \* [k -> number of times keep-alive k returned its lease]
    sessionUp,        \* robot session (time-sync / token threads) is running
    authed, powered, synced, standing,
    estopped,         \* what robot.is_estopped() reports
    devPose,          \* vision_T_body of the device: [px, py, c, s, d]
    \* --- main() of square_path_example.py
    pc,               \* position in main()
    calls,            \* sequence of [step, out] in invocation order
    pending,          \* what main() is about to deliver while `finally` runs
    outcome,          \* how main() ended: "running", "ret0", "ret1", "exc", "kbi"
    exitCode,         \* process exit status, -1 while running
    side_length,      \* --side-length / main()'s / walk_square's side_length
    max_velocity,     \* --velocity, in tenths of m/s
    total_time,       \* walk_square's total_time argument, in tenths of a second
    \* --- SquarePathWalker.walk_square / walk_square_trajectory
    strategy,         \* "incremental" (walk_square) or "batched" (walk_square_trajectory)
    wpc,              \* position inside the walk method
    vision_T_body,    \* the pose snapshot read by the method ([] before)
    trajectory_points,\* the computed waypoints
    sent,             \* goals delivered to the device, in order
    command_id,       \* -1 = None
    walkRet,          \* "none", "True", "False", "kbi"
    stateQueries,     \* get_robot_state() calls made by the walk method
    ends,             \* end_time_secs - time.time() of each command submitted
    waits,            \* the block_for_trajectory_cmd calls made: [id, timeout_sec, ret]
    \* --- the device while a walk method runs
    moved,            \* displacement since the method was entered, in metres
                      \* along the axes of devPose
    reached,          \* the commands (by number) whose goal position the device
                      \* was at while that command was the most recent one
    \* --- history for the connection-object specification
    lastCall          \* the last method call made on the connection object:
                      \* [op, ret, n (calls so far), shut (robot.shutdown() ran),
                      \*  first, second (what the two login attempts of
                      \*  authenticate() met; "none" when not made)]

connVars == <<sdk, robot, clients, lease_keepalive>>
devVars == <<kaCount, leaseOwner, exitCalls, returns, sessionUp, authed, powered,
             synced, standing, estopped, devPose>>
mainVars == <<pc, calls, pending, outcome, exitCode, side_length, max_velocity, total_time>>
walkVars == <<strategy, wpc, vision_T_body, trajectory_points, sent, command_id, walkRet,
              stateQueries, ends, waits, moved, reached>>
vars == <<connVars, devVars, mainVars, walkVars, lastCall>>

\* ------------------------------------------------------------ value sets
Outcomes == {"ok", "err", "kbi"}
KeepAlives == 1..MaxKeepAlives
CmdIds == 0..MaxCmdId
Primitive(c, s) == \A k \in 2..MaxHyp : c % k # 0 \/ s % k # 0
Rotations == {r \in (-MaxHyp..MaxHyp) \X (-MaxHyp..MaxHyp) \X (1..MaxHyp) :
                 /\ r[1] * r[1] + r[2] * r[2] = r[3] * r[3]
                 /\ Primitive(r[1], r[2])}
Poses == {[px |-> x, py |-> y, c |-> r[1], s |-> r[2], d |-> r[3]] :
             x \in -MaxPos..MaxPos, y \in -MaxPos..MaxPos, r \in Rotations}
NoCall == [op |-> "init", ret |-> "None", n |-> 0, shut |-> FALSE,
           first |-> "none", second |-> "none"]
NoPose == [px |-> 0, py |-> 0, c |-> 0, s |-> 0, d |-> 0]

\* ------------------------------------------ SpotRobotConnection (methods)
\* Return value of a method whose whole body is `try: ... return True /
\* except Exception: return False`: an Exception becomes False, a
\* KeyboardInterrupt propagates.
TryRet(out) == CASE out = "ok" -> "True" [] out = "err" -> "False" [] OTHER -> "kbi"

\* connect(): `at` is the number of assignments completed before a raise
\* (0: create_standard_sdk raised, 1: create_robot raised).
connect(out, at) ==
    /\ at \in 0..1
    /\ out = "ok" => at = 0
    /\ sdk' = (sdk \/ out = "ok" \/ at >= 1)
    /\ robot' = (robot \/ out = "ok")
    /\ sessionUp' = (IF out = "ok" THEN TRUE ELSE sessionUp)
    /\ authed' = (IF out = "ok" THEN FALSE ELSE authed)
    /\ UNCHANGED <<clients, lease_keepalive, kaCount, leaseOwner, exitCalls, returns,
                   powered, synced, standing, estopped, devPose>>

\* authenticate(): `first` is the outcome of robot.authenticate(username,
\* password) ("invalid" = InvalidLoginError), `second` the outcome of the
\* interactive bosdyn.client.util.authenticate(robot), consulted only after
\* "invalid". With self.robot None the first call raises AttributeError.
AuthFirst(first) == IF robot THEN first ELSE "err"
AuthRet(first, second) ==
    CASE AuthFirst(first) = "ok" -> "True"
      [] AuthFirst(first) = "invalid" -> TryRet(second)
      [] AuthFirst(first) = "err" -> "False"
      [] OTHER -> "kbi"
\* Faulty variant of AuthPrompted: the interactive login tried after any
\* error of the first attempt (`except Exception` on the inner try).
AuthPrompted_AnyError(first) == AuthFirst(first) \in {"invalid", "err"}

AuthPrompted(first) == AuthFirst(first) = "invalid"
authenticate(first, second) ==
    /\ first \in {"ok", "invalid", "err", "kbi"}
    /\ second \in Outcomes
    /\ ~AuthPrompted(first) => second = "ok"
    /\ authed' = (authed \/ AuthRet(first, second) = "True")
    /\ UNCHANGED <<sdk, robot, clients, lease_keepalive, kaCount, leaseOwner, exitCalls,
                   returns, sessionUp, powered, synced, standing, estopped, devPose>>

\* setup_clients(): four ensure_client calls assigned in order; `at` is the
\* index of the call that raised. With self.robot None the first one raises.
SetupOut(out) == IF robot THEN out ELSE "err"
SetupAt(at) == IF robot THEN at ELSE 0
setup_clients(out, at) ==
    /\ at \in 0..3
    /\ out = "ok" => at = 0
    /\ clients' = (IF SetupOut(out) = "ok" THEN 4
                   ELSE IF SetupAt(at) > clients THEN SetupAt(at) ELSE clients)
    /\ UNCHANGED <<sdk, robot, lease_keepalive, kaCount, leaseOwner, exitCalls, returns,
                   sessionUp, authed, powered, synced, standing, estopped, devPose>>

\* acquire_lease(): LeaseKeepAlive(lease_client, must_acquire=True,
\* return_at_exit=True). The constructor acquires the lease (and fails when
\* it is already claimed or when lease_client is None). `at` says how far a
\* KeyboardInterrupt let the method get: 0 nothing acquired, 1 the lease was
\* acquired inside the constructor but the object was not yet assigned to
\* self.lease_keepalive, 2 assigned.
CanAcquire == clients >= 1 /\ leaseOwner = 0 /\ kaCount < MaxKeepAlives
AcquireOut(out) == IF CanAcquire THEN out ELSE IF out = "kbi" THEN "kbi" ELSE "err"
AcquireAt(out, at) ==
    CASE AcquireOut(out) = "ok" -> 2
      [] AcquireOut(out) = "err" -> 0
      [] OTHER -> IF CanAcquire THEN at ELSE 0
acquire_lease(out, at) ==
    /\ at \in 0..2
    /\ out # "kbi" => at = 0
    /\ kaCount' = (IF AcquireAt(out, at) >= 1 THEN kaCount + 1 ELSE kaCount)
    /\ leaseOwner' = (IF AcquireAt(out, at) >= 1 THEN kaCount + 1 ELSE leaseOwner)
    /\ lease_keepalive' = (IF AcquireAt(out, at) = 2 THEN kaCount + 1 ELSE lease_keepalive)
    /\ UNCHANGED <<sdk, robot, clients, exitCalls, returns, sessionUp, authed, powered,
                   synced, standing, estopped, devPose>>

\* release_lease(): `if self.lease_keepalive:` then __exit__(None, None,
\* None), then the field is cleared. `out` is the outcome of __exit__;
\* `returned` says whether the lease return had already taken effect when
\* __exit__ raised. The field is cleared only when __exit__ comes back.
ReleaseOut(out) == IF lease_keepalive = 0 THEN "ok" ELSE out
ReleaseReturned(out, returned) ==
    lease_keepalive # 0 /\ (ReleaseOut(out) = "ok" \/ returned)
KeepaliveAfterRelease(out) == IF ReleaseOut(out) = "ok" THEN 0 ELSE lease_keepalive
release_lease(out, returned) ==
    /\ out \in Outcomes
    /\ returned \in BOOLEAN
    /\ (lease_keepalive = 0 \/ out = "ok") => returned = FALSE
    /\ (lease_keepalive # 0 /\ out # "ok") => exitCalls[lease_keepalive] < MaxExits
    /\ exitCalls' = (IF lease_keepalive = 0 THEN exitCalls
                     ELSE [exitCalls EXCEPT ![lease_keepalive] = @ + 1])
    /\ returns' = (IF ReleaseReturned(out, returned)
                   THEN [returns EXCEPT ![lease_keepalive] = @ + 1] ELSE returns)
    /\ leaseOwner' = (IF ReleaseReturned(out, returned) /\ leaseOwner = lease_keepalive
                      THEN 0 ELSE leaseOwner)
    /\ lease_keepalive' = KeepaliveAfterRelease(out)
ReleaseRet(out) ==
    CASE ReleaseOut(out) = "ok" -> "None" [] ReleaseOut(out) = "err" -> "exc" [] OTHER -> "kbi"

\* verify_not_estopped(): no try/except; robot.is_estopped() may raise, and
\* raises AttributeError when self.robot is None.
EstopOut(out) == IF robot THEN out ELSE "err"
EstopRet(out) ==
    CASE EstopOut(out) = "ok" -> (IF estopped THEN "False" ELSE "True")
      [] EstopOut(out) = "err" -> "exc"
      [] OTHER -> "kbi"
verify_not_estopped(out) ==
    /\ out \in Outcomes
    /\ UNCHANGED <<connVars, devVars>>

\* power_on(timeout_sec=20): robot.power_on inside try/except Exception.
PowerOut(out) == IF robot THEN out ELSE "err"
power_on(out) ==
    /\ out \in Outcomes
    /\ powered' = (powered \/ PowerOut(out) = "ok")
    /\ UNCHANGED <<connVars, kaCount, leaseOwner, exitCalls, returns, sessionUp, authed,
                   synced, standing, estopped, devPose>>

\* time_sync(): robot.time_sync.wait_for_sync() inside try/except Exception.
SyncOut(out) == IF robot THEN out ELSE "err"
time_sync(out) ==
    /\ out \in Outcomes
    /\ synced' = (synced \/ SyncOut(out) = "ok")
    /\ UNCHANGED <<connVars, kaCount, leaseOwner, exitCalls, returns, sessionUp, authed,
                   powered, standing, estopped, devPose>>

\* disconnect(): release_lease(), then `if self.robot: self.robot.shutdown()`.
\* No try/finally: when release_lease() raises, shutdown() is not reached.
\* `out2` is the outcome of robot.shutdown().
ShutdownReached(out1) == ReleaseOut(out1) = "ok" /\ robot
ShutdownOut(out1, out2) == IF ShutdownReached(out1) THEN out2 ELSE "ok"
DisconnectRet(out1, out2) ==
    CASE ReleaseRet(out1) # "None" -> ReleaseRet(out1)
      [] ShutdownOut(out1, out2) = "ok" -> "None"
      [] ShutdownOut(out1, out2) = "err" -> "exc"
      [] OTHER -> "kbi"
disconnect(out1, returned, out2) ==
    /\ out2 \in Outcomes
    /\ ~ShutdownReached(out1) => out2 = "ok"
    /\ release_lease(out1, returned)
    /\ sessionUp' = (IF ShutdownReached(out1) /\ out2 = "ok" THEN FALSE ELSE sessionUp)
    /\ UNCHANGED <<sdk, robot, clients, kaCount, authed, powered, synced, standing,
                   estopped, devPose>>

\* ------------------------------------------------ Python float arithmetic
\* total_time, time_per_segment and the deadlines are Python floats, i.e.
\* IEEE 754 binary64 numbers, and every operation on them rounds its exact
\* result to the nearest float, ties to even. A positive float is the record
\* [m, e] of value m * 2^e, m being the significand of exactly Precision bits
\* kept as four limbs of LimbBits bits, least significant limb first.
Precision == 53
LimbBits == 16
LimbBase == 2 ^ LimbBits

RECURSIVE BitsOf(_)
BitsOf(n) == IF n = 0 THEN 0 ELSE 1 + BitsOf(n \div 2)
TopLimb(n) == IF \A i \in 1..Len(n) : n[i] = 0 THEN 0
              ELSE CHOOSE i \in 1..Len(n) : n[i] # 0 /\ \A j \in (i + 1)..Len(n) : n[j] = 0
BitLen(n) == IF TopLimb(n) = 0 THEN 0
             ELSE LimbBits * (TopLimb(n) - 1) + BitsOf(n[TopLimb(n)])

\* Limb arithmetic with a small operand k: product, sum, quotient, remainder.
RECURSIVE MulCarry(_, _, _)
MulCarry(n, k, i) == IF i = 1 THEN 0 ELSE (n[i - 1] * k + MulCarry(n, k, i - 1)) \div LimbBase
MulLimb(n, k, i) == (n[i] * k + MulCarry(n, k, i)) % LimbBase
MulSmall(n, k) == <<MulLimb(n, k, 1), MulLimb(n, k, 2), MulLimb(n, k, 3), MulLimb(n, k, 4)>>
RECURSIVE AddCarry(_, _, _)
AddCarry(n, k, i) == IF i = 1 THEN k ELSE (n[i - 1] + AddCarry(n, k, i - 1)) \div LimbBase
AddLimb(n, k, i) == (n[i] + AddCarry(n, k, i)) % LimbBase
AddSmall(n, k) == <<AddLimb(n, k, 1), AddLimb(n, k, 2), AddLimb(n, k, 3), AddLimb(n, k, 4)>>
RECURSIVE RemFrom(_, _, _)
RemFrom(n, k, i) == IF i > Len(n) THEN 0 ELSE (RemFrom(n, k, i + 1) * LimbBase + n[i]) % k
DivLimb(n, k, i) == (RemFrom(n, k, i + 1) * LimbBase + n[i]) \div k
DivSmall(n, k) == <<DivLimb(n, k, 1), DivLimb(n, k, 2), DivLimb(n, k, 3), DivLimb(n, k, 4)>>
ModSmall(n, k) == RemFrom(n, k, 1)

\* Round to nearest, ties to even: q is the truncated significand and r / d
\* the fraction that was cut off; a significand rounded up to Precision + 1
\* bits is a power of two and moves to the next exponent.
RoundEven(q, r, d) ==
    IF 2 * r > d \/ (2 * r = d /\ q[1] % 2 = 1) THEN AddSmall(q, 1) ELSE q
Normal(m, e) ==
    IF BitLen(m) > Precision THEN [m |-> DivSmall(m, 2), e |-> e + 1]
    ELSE [m |-> m, e |-> e]

\* float(n) of an int 0 < n < LimbBase (exact): the leading bit of n becomes
\* the leading bit of the significand, whose top limb holds TopBits bits.
TopBits == Precision - 3 * LimbBits
FloatOf(n) ==
    [m |-> IF BitsOf(n) <= TopBits
           THEN <<0, 0, 0, n * 2 ^ (TopBits - BitsOf(n))>>
           ELSE <<0, 0, (n % 2 ^ (BitsOf(n) - TopBits)) * 2 ^ (LimbBits + TopBits - BitsOf(n)),
                  n \div 2 ^ (BitsOf(n) - TopBits)>>,
     e |-> BitsOf(n) - Precision]

\* f / n for a float f and an int 0 < n <= 16 (float division by float(n)).
DivShift(f, n) ==
    CHOOSE s \in 0..4 : BitLen(DivSmall(MulSmall(f.m, 2 ^ s), n)) = Precision
FloatDiv(f, n) ==
    Normal(RoundEven(DivSmall(MulSmall(f.m, 2 ^ DivShift(f, n)), n),
                     ModSmall(MulSmall(f.m, 2 ^ DivShift(f, n)), n), n),
           f.e - DivShift(f, n))

\* k * f for a float f and an int 0 < k <= 16 (float multiplication by float(k)).
MulShift(f, k) == BitLen(MulSmall(f.m, k)) - Precision
FloatMul(f, k) ==
    Normal(RoundEven(DivSmall(MulSmall(f.m, k), 2 ^ MulShift(f, k)),
                     ModSmall(MulSmall(f.m, k), 2 ^ MulShift(f, k)), 2 ^ MulShift(f, k)),
           f.e + MulShift(f, k))

\* a < b for positive floats.
FloatLess(a, b) ==
    \/ a.e < b.e
    \/ /\ a.e = b.e
       /\ \E i \in 1..Len(a.m) :
             a.m[i] < b.m[i] /\ \A j \in (i + 1)..Len(a.m) : a.m[j] = b.m[j]

\* The float a decimal literal with one fractional digit denotes (20.0, 0.9):
\* the float nearest to tenths / 10.
DecimalFloat(tenths) == FloatDiv(FloatOf(tenths), 10)

\* ------------------------------------------------ SquarePathWalker (pure)
\* SE3Pose.transform_point(x, y, 0) of a pose that is a yaw rotation plus a
\* translation, first two components, in units of 1/T.d:
\*   x_vision = px + cos*x - sin*y,  y_vision = py + sin*x + cos*y
transform_point(T, x, y) ==
    <<T.d * T.px + T.c * x - T.s * y, T.d * T.py + T.s * x + T.c * y>>

\* math.atan2(dy, dx) in quarter turns (units of pi/2) for the axis-aligned
\* vectors the square produces; atan2(0, 0) = 0, atan2(0, -d) = pi.
atan2(dy, dx) ==
    CASE dy = 0 /\ dx >= 0 -> 0
      [] dy > 0 /\ dx = 0 -> 1
      [] dy = 0 /\ dx < 0 -> 2
      [] dy < 0 /\ dx = 0 -> -1

\* Faulty variant of square_points: the path is left open, the last point repeating
\* the upper-left corner instead of going back to the start.
square_points_Open(L) == << <<0, 0>>, <<L, 0>>, <<L, L>>, <<0, L>>, <<0, L>> >>

\* walk_square: square_points, body frame.
square_points(L) == << <<0, 0>>, <<L, 0>>, <<L, L>>, <<0, L>>, <<0, 0>> >>

\* Faulty variant of Heading: the heading of the segment that arrives at the
\* waypoint instead of the one that leaves it.
Heading_Behind(pts, idx) ==
    IF idx > 1
    THEN atan2(pts[idx][2] - pts[idx - 1][2], pts[idx][1] - pts[idx - 1][1])
    ELSE 0

\* walk_square: the heading computed at index idx (1-based here).
Heading(pts, idx) ==
    IF idx < Len(pts)
    THEN atan2(pts[idx + 1][2] - pts[idx][2], pts[idx + 1][1] - pts[idx][1])
    ELSE 0

\* walk_square: time_per_segment = total_time / len(square_points), a float
\* division.
time_per_segment(total, pts) == FloatDiv(DecimalFloat(total), Len(pts))

\* walk_square: time_at_point = (idx + 1) * time_per_segment, a float
\* multiplication (idx is 1-based here, so the factor is idx).
time_at_point(total, pts, idx) == FloatMul(time_per_segment(total, pts), idx)

\* walk_square: one (pose, time_at_point) entry of trajectory_points.
WalkPoint(T, pts, idx, total) ==
    [x |-> transform_point(T, pts[idx][1], pts[idx][2])[1],
     y |-> transform_point(T, pts[idx][1], pts[idx][2])[2],
     angle |-> Heading(pts, idx),
     time |-> time_at_point(total, pts, idx)]

\* walk_square: the loop that fills trajectory_points.
WalkPoints(T, L, total) ==
    [idx \in 1..Len(square_points(L)) |-> WalkPoint(T, square_points(L), idx, total)]

\* walk_square_trajectory: square_points, body frame.
traj_square_points(L) == << <<0, 0>>, <<L, 0>>, <<L, L>>, <<0, L>>, <<0, 0>> >>

\* walk_square_trajectory: one SE2TrajectoryPoint of traj_points; `time` is
\* time_val = (idx + 1) * (total_time / len(square_points)), the float handed
\* to seconds_to_duration.
TrajPoint(T, pts, idx, total) ==
    [x |-> transform_point(T, pts[idx][1], pts[idx][2])[1],
     y |-> transform_point(T, pts[idx][1], pts[idx][2])[2],
     angle |-> IF idx < Len(pts)
               THEN atan2(pts[idx + 1][2] - pts[idx][2], pts[idx + 1][1] - pts[idx][1])
               ELSE 0,
     time |-> FloatMul(FloatDiv(DecimalFloat(total), Len(pts)), idx)]

\* walk_square_trajectory: the loop that fills traj_points.
TrajPoints(T, L, total) ==
    [idx \in 1..Len(traj_square_points(L)) |->
        TrajPoint(T, traj_square_points(L), idx, total)]

\* ---------------------------------------------- SquarePathWalker (methods)
\* stand_up(timeout_sec=10): blocking_stand inside try/except Exception; the
\* command client is the second service client set up.
StandOut(out) == IF clients >= 2 THEN out ELSE "err"
stand_up(out) ==
    /\ out \in Outcomes
    /\ standing' = (standing \/ StandOut(out) = "ok")
    /\ UNCHANGED <<connVars, kaCount, leaseOwner, exitCalls, returns, sessionUp, authed,
                   powered, synced, estopped, devPose>>

\* The goal a waypoint command carries to the device.
Goal(p) == [x |-> p.x, y |-> p.y, angle |-> p.angle]

\* The device's position in the world-fixed frame (units of 1/devPose.d)
\* after a displacement m, and whether that is the position of goal g.
DevicePosition(m) == transform_point(devPose, m[1], m[2])
AtGoal(m, g) == DevicePosition(m) = <<g.x, g.y>>

\* commands[id] = the command just accepted is the n-th; the device counts
\* as having reached it at once when it already stands at its goal.
ReachedOnArrival(g, n) == IF AtGoal(moved, g) THEN reached \cup {n} ELSE reached

\* The method returns: the try block's `return True`, the except branch's
\* `return False`, or a KeyboardInterrupt passing through.
WalkReturns(ret) ==
    /\ wpc' = "returned"
    /\ walkRet' = ret

\* get_robot_state() and get_vision_tform_body(...): the pose snapshot. The
\* state client is the third service client set up.
StateOut(out) == IF clients >= 3 THEN out ELSE "err"
WalkGetState(out) ==
    /\ wpc = "get_state"
    /\ out \in Outcomes
    /\ IF StateOut(out) = "ok"
       THEN /\ vision_T_body' = devPose
            /\ wpc' = "compute"
            /\ UNCHANGED walkRet
       ELSE /\ WalkReturns(TryRet(StateOut(out)))
            /\ UNCHANGED vision_T_body
    /\ stateQueries' = (IF clients >= 3 THEN stateQueries + 1 ELSE stateQueries)
    /\ UNCHANGED <<strategy, trajectory_points, sent, command_id>>
    /\ UNCHANGED <<ends, waits, moved, reached>>
    /\ UNCHANGED <<connVars, devVars>>

\* The loop computing the waypoints, in walk_square or walk_square_trajectory.
PlannedPoints ==
    IF strategy = "incremental"
    THEN WalkPoints(vision_T_body, side_length, total_time)
    ELSE TrajPoints(vision_T_body, side_length, total_time)
WalkCompute ==
    /\ wpc = "compute"
    /\ trajectory_points' = PlannedPoints
    /\ wpc' = (IF strategy = "incremental" THEN "submit" ELSE "send")
    /\ UNCHANGED <<strategy, vision_T_body, sent, command_id, walkRet>>
    /\ UNCHANGED <<stateQueries, ends, waits, moved, reached>>
    /\ UNCHANGED <<connVars, devVars>>

\* Faulty variant of LoopPoint: the pose queried again in each iteration, so
\* that the position of the waypoint follows the device (the body offset is
\* transformed from where the device stands now).
LoopPoint_Requery(n) ==
    [trajectory_points[n] EXCEPT
        !.x = transform_point(devPose, moved[1] + square_points(side_length)[n][1],
                              moved[2] + square_points(side_length)[n][2])[1],
        !.y = transform_point(devPose, moved[1] + square_points(side_length)[n][1],
                              moved[2] + square_points(side_length)[n][2])[2]]

\* walk_square: the (pose, time_val) pair the n-th iteration of the
\* submission loop takes from trajectory_points.
LoopPoint(n) == trajectory_points[n]

\* walk_square: one iteration of `for pose, time_val in trajectory_points`:
\* one synchro_se2_trajectory_point_command through robot_command, which
\* returns the command id.
SubmitOut(out) == IF clients >= 2 THEN out ELSE "err"
AfterSubmitPc(n) == IF n = Len(trajectory_points) THEN "block" ELSE "submit"
WalkSubmit(out, id) ==
    /\ wpc = "submit"
    /\ strategy = "incremental"
    /\ out \in Outcomes
    /\ id \in CmdIds
    /\ out # "ok" => id = 0
    /\ Len(sent) < Len(trajectory_points)
    /\ IF SubmitOut(out) = "ok"
       THEN /\ sent' = Append(sent, Goal(LoopPoint(Len(sent) + 1)))
            /\ ends' = Append(ends, LoopPoint(Len(sent) + 1).time)
            /\ command_id' = id
            /\ reached' = ReachedOnArrival(Goal(LoopPoint(Len(sent) + 1)), Len(sent) + 1)
            /\ wpc' = AfterSubmitPc(Len(sent) + 1)
            /\ UNCHANGED walkRet
       ELSE /\ WalkReturns(TryRet(SubmitOut(out)))
            /\ UNCHANGED <<sent, ends, command_id, reached>>
    /\ UNCHANGED <<strategy, vision_T_body, trajectory_points, stateQueries, waits, moved>>
    /\ UNCHANGED <<connVars, devVars>>

\* One call of block_for_trajectory_cmd(command_client, command_id,
\* timeout_sec=total_time + 5), timeout in tenths of a second. It returns
\* True once the device reports the goal of the command reached ("ok",
\* which needs the device to be there), False when the timeout elapses first
\* ("timeout"), or raises.
Waited(out) ==
    Append(waits, [id |-> command_id, timeout_sec |-> total_time + 10 * 5,
                   ret |-> CASE out = "ok" -> "True" [] out = "timeout" -> "False"
                             [] out = "err" -> "exc" [] OTHER -> "kbi"])

\* walk_square: `if command_id:` block_for_trajectory_cmd(..., timeout_sec =
\* total_time + 5), then return True. The value block_for_trajectory_cmd
\* returns is not looked at.
Blocks == command_id # -1 /\ command_id # 0
BlockOut(out) == IF Blocks THEN out ELSE "ok"
BlockRet(out) ==
    CASE BlockOut(out) \in {"ok", "timeout"} -> "True"
      [] BlockOut(out) = "err" -> "False"
      [] OTHER -> "kbi"
WalkBlock(out) ==
    /\ wpc = "block"
    /\ out \in {"ok", "timeout", "err", "kbi"}
    /\ ~Blocks => out = "ok"
    /\ (Blocks /\ out = "ok") => AtGoal(moved, sent[Len(sent)])
    /\ waits' = (IF Blocks THEN Waited(out) ELSE waits)
    /\ WalkReturns(BlockRet(out))
    /\ UNCHANGED <<strategy, vision_T_body, trajectory_points, sent, command_id>>
    /\ UNCHANGED <<stateQueries, ends, moved, reached>>
    /\ UNCHANGED <<connVars, devVars>>

\* walk_square_trajectory: synchro_se2_trajectory_command(goal_se2 =
\* trajectory.points[-1].pose, ...) sent once through robot_command.
TrajSend(out, id) ==
    /\ wpc = "send"
    /\ strategy = "batched"
    /\ out \in Outcomes
    /\ id \in CmdIds
    /\ out # "ok" => id = 0
    /\ IF SubmitOut(out) = "ok"
       THEN /\ sent' = <<Goal(trajectory_points[Len(trajectory_points)])>>
            /\ ends' = <<DecimalFloat(total_time)>>
            /\ command_id' = id
            /\ reached' = ReachedOnArrival(Goal(trajectory_points[Len(trajectory_points)]), 1)
            /\ wpc' = "wait"
            /\ UNCHANGED walkRet
       ELSE /\ WalkReturns(TryRet(SubmitOut(out)))
            /\ UNCHANGED <<sent, ends, command_id, reached>>
    /\ UNCHANGED <<strategy, vision_T_body, trajectory_points, stateQueries, waits, moved>>
    /\ UNCHANGED <<connVars, devVars>>

\* walk_square_trajectory: block_for_trajectory_cmd on the command id
\* (unconditionally), then return True.
TrajBlock(out) ==
    /\ wpc = "wait"
    /\ out \in {"ok", "timeout", "err", "kbi"}
    /\ out = "ok" => AtGoal(moved, sent[Len(sent)])
    /\ waits' = Waited(out)
    /\ WalkReturns(CASE out \in {"ok", "timeout"} -> "True"
                     [] out = "err" -> "False"
                     [] OTHER -> "kbi")
    /\ UNCHANGED <<strategy, vision_T_body, trajectory_points, sent, command_id>>
    /\ UNCHANGED <<stateQueries, ends, moved, reached>>
    /\ UNCHANGED <<connVars, devVars>>

\* The device, which pursues only the most recently accepted command, walks
\* one side length along one axis of the square toward that command's goal.
\* It does so at its own pace while the walk method runs: the method never
\* waits for it between submissions (only time.sleep(0.1)).
Steps(L) == {<<L, 0>>, <<-L, 0>>, <<0, L>>, <<0, -L>>}
Distance2(m, g) ==
    (DevicePosition(m)[1] - g.x) * (DevicePosition(m)[1] - g.x)
        + (DevicePosition(m)[2] - g.y) * (DevicePosition(m)[2] - g.y)
DeviceMoves ==
    /\ wpc \in {"submit", "block", "wait"}
    /\ sent # <<>>
    /\ \E step \in Steps(side_length) :
          /\ Distance2(<<moved[1] + step[1], moved[2] + step[2]>>, sent[Len(sent)])
                < Distance2(moved, sent[Len(sent)])
          /\ moved' = <<moved[1] + step[1], moved[2] + step[2]>>
          /\ reached' = (IF AtGoal(<<moved[1] + step[1], moved[2] + step[2]>>,
                                   sent[Len(sent)])
                         THEN reached \cup {Len(sent)} ELSE reached)
    /\ UNCHANGED <<strategy, wpc, vision_T_body, trajectory_points, sent, command_id,
                   walkRet, stateQueries, ends, waits>>
    /\ UNCHANGED <<connVars, devVars>>

\* ------------------------------------------- square_path_example.py main()
\* Exit status of the process for each way main() can end: sys.exit(main())
\* with the returned value; an uncaught Exception ends the interpreter with
\* status 1; an uncaught KeyboardInterrupt ends it with status 1 (before
\* Python 3.8) or through SIGINT, status 130 (3.8 and later).
ExitCodes(how) ==
    CASE how = "ret0" -> {0}
      [] how = "ret1" -> {1}
      [] how = "exc" -> {1}
      [] how = "kbi" -> {1, 130}

Logged(step, ret) == Append(calls, [step |-> step, ret |-> ret])

\* main() ends without passing through `finally` (steps 1-4 are outside the
\* try statement).
MainEnds(how) ==
    /\ pc' = "done"
    /\ outcome' = how
    /\ exitCode' \in ExitCodes(how)
    /\ UNCHANGED pending

\* Faulty variant of PreTryStep: `if not robot_conn.step(): return 1`
\* dropped, so a step that returned False is followed by the next step.
PreTryStep_Ignore(ret, next) ==
    CASE ret \in {"True", "False"} -> /\ pc' = next
                                      /\ UNCHANGED <<pending, outcome, exitCode>>
      [] OTHER -> MainEnds("kbi")

\* A step outside the try statement returned `ret`:
\* `if not robot_conn.step(): return 1`.
PreTryStep(ret, next) ==
    CASE ret = "True" -> /\ pc' = next
                         /\ UNCHANGED <<pending, outcome, exitCode>>
      [] ret = "False" -> MainEnds("ret1")
      [] OTHER -> MainEnds("kbi")

\* Faulty variant of TryStepPc: main() calling the failed step again.
TryStepPc_Retry(ret, next) == IF ret = "True" THEN next ELSE pc

\* Where control goes after a step inside the try statement returned `ret`:
\* on to the next step, or (return 1 / except KeyboardInterrupt / except
\* Exception, all `return 1`) to the finally clause.
TryStepPc(ret, next) == IF ret = "True" THEN next ELSE "finally"
TryStep(ret, next) ==
    /\ pc' = TryStepPc(ret, next)
    /\ pending' = (IF ret = "True" THEN pending ELSE "ret1")
    /\ UNCHANGED <<outcome, exitCode>>

\* Faulty variant of Valid: the upper limit of the velocity not checked.
Valid_NoUpperLimit == side_length > 0 /\ max_velocity > 0

\* Command-line validation of the __main__ block, then sys.exit(main(...)).
Valid == side_length > 0 /\ max_velocity > 0 /\ max_velocity <= 20
Validate ==
    /\ pc = "validate"
    /\ IF Valid
       THEN /\ pc' = "connect"
            /\ UNCHANGED <<outcome, exitCode>>
       ELSE /\ pc' = "done"
            /\ outcome' = "invalid"
            /\ exitCode' = 1
    /\ UNCHANGED <<calls, pending, side_length, max_velocity, total_time>>
    /\ UNCHANGED <<connVars, devVars, walkVars, lastCall>>

MainConnect ==
    /\ pc = "connect"
    /\ \E out \in Outcomes, at \in 0..1 :
          /\ connect(out, at)
          /\ calls' = Logged("connect", TryRet(out))
          /\ PreTryStep(TryRet(out), "authenticate")
    /\ UNCHANGED <<side_length, max_velocity, total_time, walkVars, lastCall>>

MainAuthenticate ==
    /\ pc = "authenticate"
    /\ \E first \in {"ok", "invalid", "err", "kbi"}, second \in Outcomes :
          /\ authenticate(first, second)
          /\ calls' = Logged("authenticate", AuthRet(first, second))
          /\ PreTryStep(AuthRet(first, second), "setup_clients")
    /\ UNCHANGED <<side_length, max_velocity, total_time, walkVars, lastCall>>

MainSetupClients ==
    /\ pc = "setup_clients"
    /\ \E out \in Outcomes, at \in 0..3 :
          /\ setup_clients(out, at)
          /\ calls' = Logged("setup_clients", TryRet(SetupOut(out)))
          /\ PreTryStep(TryRet(SetupOut(out)), "acquire_lease")
    /\ UNCHANGED <<side_length, max_velocity, total_time, walkVars, lastCall>>

MainAcquireLease ==
    /\ pc = "acquire_lease"
    /\ \E out \in Outcomes, at \in 0..2 :
          /\ acquire_lease(out, at)
          /\ calls' = Logged("acquire_lease", TryRet(AcquireOut(out)))
          /\ PreTryStep(TryRet(AcquireOut(out)), "try")
    /\ UNCHANGED <<side_length, max_velocity, total_time, walkVars, lastCall>>

\* Between acquire_lease() returning True and the try statement being
\* entered: control either enters the try block or a KeyboardInterrupt is
\* delivered first, outside any handler.
MainEnterTry ==
    /\ pc = "try"
    /\ \E interrupted \in BOOLEAN :
          IF interrupted
          THEN MainEnds("kbi")
          ELSE /\ pc' = "verify_not_estopped"
               /\ UNCHANGED <<pending, outcome, exitCode>>
    /\ UNCHANGED <<calls, side_length, max_velocity, total_time>>
    /\ UNCHANGED <<connVars, devVars, walkVars, lastCall>>

MainVerifyNotEstopped ==
    /\ pc = "verify_not_estopped"
    /\ \E out \in Outcomes :
          /\ verify_not_estopped(out)
          /\ calls' = Logged("verify_not_estopped", EstopRet(out))
          /\ TryStep(EstopRet(out), "power_on")
    /\ UNCHANGED <<side_length, max_velocity, total_time, walkVars, lastCall>>

MainPowerOn ==
    /\ pc = "power_on"
    /\ \E out \in Outcomes :
          /\ power_on(out)
          /\ calls' = Logged("power_on", TryRet(PowerOut(out)))
          /\ TryStep(TryRet(PowerOut(out)), "time_sync")
    /\ UNCHANGED <<side_length, max_velocity, total_time, walkVars, lastCall>>

MainTimeSync ==
    /\ pc = "time_sync"
    /\ \E out \in Outcomes :
          /\ time_sync(out)
          /\ calls' = Logged("time_sync", TryRet(SyncOut(out)))
          /\ TryStep(TryRet(SyncOut(out)), "stand_up")
    /\ UNCHANGED <<side_length, max_velocity, total_time, walkVars, lastCall>>

MainStandUp ==
    /\ pc = "stand_up"
    /\ \E out \in Outcomes :
          /\ stand_up(out)
          /\ calls' = Logged("stand_up", TryRet(StandOut(out)))
          /\ TryStep(TryRet(StandOut(out)), "walk_square")
    /\ UNCHANGED <<side_length, max_velocity, total_time, walkVars, lastCall>>

\* walker.walk_square(side_length, max_velocity, total_time=20.0) is entered.
MainCallWalk ==
    /\ pc = "walk_square"
    /\ wpc = "idle"
    /\ pc' = "walking"
    /\ wpc' = "get_state"
    /\ calls' = Logged("walk_square", "running")
    /\ UNCHANGED <<pending, outcome, exitCode, side_length, max_velocity, total_time>>
    /\ UNCHANGED <<strategy, vision_T_body, trajectory_points, sent, command_id, walkRet>>
    /\ UNCHANGED <<stateQueries, ends, waits, moved, reached>>
    /\ UNCHANGED <<connVars, devVars, lastCall>>

\* walk_square came back: `if not walker.walk_square(...): return 1`, else
\* `return 0`; both go through the finally clause.
MainWalkReturn ==
    /\ pc = "walking"
    /\ wpc = "returned"
    /\ calls' = [calls EXCEPT ![Len(calls)].ret = walkRet]
    /\ pc' = "finally"
    /\ pending' = (IF walkRet = "True" THEN "ret0" ELSE "ret1")
    /\ UNCHANGED <<outcome, exitCode, side_length, max_velocity, total_time>>
    /\ UNCHANGED <<connVars, devVars, walkVars, lastCall>>

\* finally: robot_conn.disconnect(). When it comes back main() delivers the
\* pending return value; when it raises, that exception leaves main().
FinallyOutcome(ret) ==
    CASE ret = "None" -> pending
      [] ret = "exc" -> "exc"
      [] OTHER -> "kbi"
MainFinally ==
    /\ pc = "finally"
    /\ \E out1 \in Outcomes, returned \in BOOLEAN, out2 \in Outcomes :
          /\ disconnect(out1, returned, out2)
          /\ calls' = Logged("disconnect", DisconnectRet(out1, out2))
          /\ pc' = "done"
          /\ outcome' = FinallyOutcome(DisconnectRet(out1, out2))
          /\ exitCode' \in ExitCodes(FinallyOutcome(DisconnectRet(out1, out2)))
    /\ UNCHANGED <<pending, side_length, max_velocity, total_time, walkVars, lastCall>>

\* The walk method's own steps, run from main() (pc = "walking") or by a
\* direct caller of the walker (pc = "walker").
InWalk == pc \in {"walking", "walker"}
RunGetState ==
    /\ InWalk
    /\ \E out \in Outcomes : WalkGetState(out)
    /\ UNCHANGED <<mainVars, lastCall>>
RunCompute ==
    /\ InWalk
    /\ WalkCompute
    /\ UNCHANGED <<mainVars, lastCall>>
RunSubmit ==
    /\ InWalk
    /\ \E out \in Outcomes, id \in CmdIds : WalkSubmit(out, id)
    /\ UNCHANGED <<mainVars, lastCall>>
RunBlock ==
    /\ InWalk
    /\ \E out \in {"ok", "timeout", "err", "kbi"} : WalkBlock(out)
    /\ UNCHANGED <<mainVars, lastCall>>
RunTrajSend ==
    /\ InWalk
    /\ \E out \in Outcomes, id \in CmdIds : TrajSend(out, id)
    /\ UNCHANGED <<mainVars, lastCall>>
RunTrajBlock ==
    /\ InWalk
    /\ \E out \in {"ok", "timeout", "err", "kbi"} : TrajBlock(out)
    /\ UNCHANGED <<mainVars, lastCall>>
\* The device's own steps are followed when the walker is used on its own;
\* in a run of main() the device is taken at the place it stood at.
RunDevice ==
    /\ pc = "walker"
    /\ DeviceMoves
    /\ UNCHANGED <<mainVars, lastCall>>

Init ==
    /\ sdk = FALSE /\ robot = FALSE /\ clients = 0 /\ lease_keepalive = 0
    /\ kaCount = 0 /\ leaseOwner = 0
    /\ exitCalls = [k \in KeepAlives |-> 0]
    /\ returns = [k \in KeepAlives |-> 0]
    /\ sessionUp = FALSE /\ authed = FALSE /\ powered = FALSE
    /\ synced = FALSE /\ standing = FALSE
    /\ estopped \in BOOLEAN
    /\ devPose \in Poses
    /\ pc = "validate" /\ calls = <<>> /\ pending = "none"
    /\ outcome = "running" /\ exitCode = -1
    /\ side_length \in 0..MaxSide
    /\ max_velocity \in {0, 5, 20, 21}
    /\ total_time = 10 * MainTotalTime
    /\ strategy = "incremental" /\ wpc = "idle"
    /\ vision_T_body = NoPose /\ trajectory_points = <<>> /\ sent = <<>>
    /\ command_id = -1 /\ walkRet = "none"
    /\ stateQueries = 0
    /\ ends = <<>> /\ waits = <<>> /\ moved = <<0, 0>> /\ reached = {}
    /\ lastCall = NoCall

Next ==
    \/ Validate
    \/ MainConnect
    \/ MainAuthenticate
    \/ MainSetupClients
    \/ MainAcquireLease
    \/ MainEnterTry
    \/ MainVerifyNotEstopped
    \/ MainPowerOn
    \/ MainTimeSync
    \/ MainStandUp
    \/ MainCallWalk
    \/ RunGetState
    \/ RunCompute
    \/ RunSubmit
    \/ RunBlock
    \/ MainWalkReturn
    \/ MainFinally

Spec == Init /\ [][Next]_vars

\* ------------------------------- the connection object used on its own
\* Any caller may invoke the methods of SpotRobotConnection in any order;
\* a call that raised is followed by whatever the caller does next.
Called(op, ret, shut) ==
    /\ lastCall.n < MaxCalls
    /\ lastCall' = [op |-> op, ret |-> ret, n |-> lastCall.n + 1, shut |-> shut,
                    first |-> "none", second |-> "none"]
    /\ UNCHANGED <<mainVars, walkVars>>
CalledAuthenticate(first, second) ==
    /\ lastCall.n < MaxCalls
    /\ lastCall' = [op |-> "authenticate", ret |-> AuthRet(first, second),
                    n |-> lastCall.n + 1, shut |-> FALSE,
                    first |-> AuthFirst(first),
                    second |-> IF AuthPrompted(first) THEN second ELSE "none"]
    /\ UNCHANGED <<mainVars, walkVars>>

ApiConnect ==
    \E out \in Outcomes, at \in 0..1 :
        connect(out, at) /\ Called("connect", TryRet(out), FALSE)
ApiAuthenticate ==
    \E first \in {"ok", "invalid", "err", "kbi"}, second \in Outcomes :
        authenticate(first, second) /\ CalledAuthenticate(first, second)
ApiSetupClients ==
    \E out \in Outcomes, at \in 0..3 :
        setup_clients(out, at) /\ Called("setup_clients", TryRet(SetupOut(out)), FALSE)
ApiAcquireLease ==
    \E out \in Outcomes, at \in 0..2 :
        acquire_lease(out, at) /\ Called("acquire_lease", TryRet(AcquireOut(out)), FALSE)
ApiReleaseLease ==
    \E out \in Outcomes, returned \in BOOLEAN :
        /\ release_lease(out, returned)
        /\ UNCHANGED <<sdk, robot, clients, kaCount, sessionUp, authed, powered, synced,
                       standing, estopped, devPose>>
        /\ Called("release_lease", ReleaseRet(out), FALSE)
ApiVerifyNotEstopped ==
    \E out \in Outcomes :
        verify_not_estopped(out) /\ Called("verify_not_estopped", EstopRet(out), FALSE)
ApiPowerOn ==
    \E out \in Outcomes :
        power_on(out) /\ Called("power_on", TryRet(PowerOut(out)), FALSE)
ApiTimeSync ==
    \E out \in Outcomes :
        time_sync(out) /\ Called("time_sync", TryRet(SyncOut(out)), FALSE)
ApiDisconnect ==
    \E out1 \in Outcomes, returned \in BOOLEAN, out2 \in Outcomes :
        /\ disconnect(out1, returned, out2)
        /\ Called("disconnect", DisconnectRet(out1, out2), ShutdownReached(out1))

InitConn ==
    /\ sdk = FALSE /\ robot = FALSE /\ clients = 0 /\ lease_keepalive = 0
    /\ kaCount = 0 /\ leaseOwner = 0
    /\ exitCalls = [k \in KeepAlives |-> 0]
    /\ returns = [k \in KeepAlives |-> 0]
    /\ sessionUp = FALSE /\ authed = FALSE /\ powered = FALSE
    /\ synced = FALSE /\ standing = FALSE
    /\ estopped \in BOOLEAN
    /\ devPose = [px |-> 0, py |-> 0, c |-> 1, s |-> 0, d |-> 1]
    /\ pc = "api" /\ calls = <<>> /\ pending = "none"
    /\ outcome = "running" /\ exitCode = -1
    /\ side_length = 1 /\ max_velocity = 5 /\ total_time = 10 * MainTotalTime
    /\ strategy = "incremental" /\ wpc = "idle"
    /\ vision_T_body = NoPose /\ trajectory_points = <<>> /\ sent = <<>>
    /\ command_id = -1 /\ walkRet = "none"
    /\ stateQueries = 0
    /\ ends = <<>> /\ waits = <<>> /\ moved = <<0, 0>> /\ reached = {}
    /\ lastCall = NoCall

NextConn ==
    \/ ApiConnect
    \/ ApiAuthenticate
    \/ ApiSetupClients
    \/ ApiAcquireLease
    \/ ApiReleaseLease
    \/ ApiVerifyNotEstopped
    \/ ApiPowerOn
    \/ ApiTimeSync
    \/ ApiDisconnect

SpecConn == InitConn /\ [][NextConn]_vars

\* --------------------------------------- the walker used on its own
\* A SquarePathWalker built on a connection that went through every step
\* of main() up to stand_up(); either walk method is called once.
InitWalk ==
    /\ sdk = TRUE /\ robot = TRUE /\ clients = 4 /\ lease_keepalive = 1
    /\ kaCount = 1 /\ leaseOwner = 1
    /\ exitCalls = [k \in KeepAlives |-> 0]
    /\ returns = [k \in KeepAlives |-> 0]
    /\ sessionUp = TRUE /\ authed = TRUE /\ powered = TRUE
    /\ synced = TRUE /\ standing = TRUE
    /\ estopped = FALSE
    /\ devPose \in Poses
    /\ pc = "walker" /\ calls = <<>> /\ pending = "none"
    /\ outcome = "running" /\ exitCode = -1
    /\ side_length \in 1..MaxSide
    /\ max_velocity = 5
    /\ total_time \in {1, MaxTime, 10 * MainTotalTime}
    /\ strategy \in {"incremental", "batched"}
    /\ wpc = "get_state"
    /\ vision_T_body = NoPose /\ trajectory_points = <<>> /\ sent = <<>>
    /\ command_id = -1 /\ walkRet = "none"
    /\ stateQueries = 0
    /\ ends = <<>> /\ waits = <<>> /\ moved = <<0, 0>> /\ reached = {}
    /\ lastCall = NoCall

NextWalk ==
    \/ RunGetState
    \/ RunCompute
    \/ RunSubmit
    \/ RunBlock
    \/ RunTrajSend
    \/ RunTrajBlock
    \/ RunDevice

SpecWalk == InitWalk /\ [][NextWalk]_vars

\* ------------------------------------------------- claims about main()
\* The fixed order of the steps of main().
StepOrder == <<"connect", "authenticate", "setup_clients", "acquire_lease",
               "verify_not_estopped", "power_on", "time_sync", "stand_up",
               "walk_square">>
IsStep(step) == \E i \in 1..Len(StepOrder) : StepOrder[i] = step
Count(step) == Cardinality({i \in 1..Len(calls) : calls[i].step = step})
Invoked(step) == Count(step) > 0
MainRan == pc = "done" /\ outcome # "invalid"

\* C1: in every run of main(), whichever step it aborts at, disconnect() is
\* invoked exactly once before main() ends.
C1_DisconnectExactlyOnce == MainRan => Count("disconnect") = 1

\* acquire_lease() was invoked and returned True.
LeaseAcquired ==
    \E i \in 1..Len(calls) : calls[i].step = "acquire_lease" /\ calls[i].ret = "True"

\* C2: in every run of main() in which the lease keep-alive was created
\* (acquire_lease() returned True), the lease is no longer held when the run
\* ends, whatever the exit path.
C2_LeaseReleasedAtEnd == (MainRan /\ LeaseAcquired) => leaseOwner = 0

\* C3: a KeyboardInterrupt during any step from connect() to walk_square()
\* is caught: the interrupted step is the last step invoked, disconnect()
\* runs after it, and main() returns 1.
C3_InterruptCaught ==
    \A i \in 1..Len(calls) :
        (MainRan /\ IsStep(calls[i].step) /\ calls[i].ret = "kbi")
            => /\ Len(calls) = i + 1
               /\ calls[i + 1].step = "disconnect"
               /\ outcome = "ret1"

\* verify_not_estopped() was invoked and returned False.
EstopReported ==
    \E j \in 1..Len(calls) :
        calls[j].step = "verify_not_estopped" /\ calls[j].ret = "False"

\* C4: power_on() is invoked only after verify_not_estopped() was invoked
\* and returned True, hence only on a robot that does not report estopped;
\* when the robot reports estopped the run ends with result 1 (main() takes
\* `return 1` and the process status is 1) without power_on(), stand_up() or
\* any waypoint submission, and the estop is left as it was.
C4_PowerOnOnlyAfterEstopCheck ==
    /\ \A i \in 1..Len(calls) :
          calls[i].step = "power_on"
              => \E j \in 1..(i - 1) :
                    calls[j].step = "verify_not_estopped" /\ calls[j].ret = "True"
    /\ Invoked("power_on") => ~estopped
    /\ \A j \in 1..Len(calls) :
          (calls[j].step = "verify_not_estopped" /\ calls[j].ret = "True") => ~estopped
    /\ EstopReported
          => /\ estopped
             /\ ~Invoked("power_on") /\ ~Invoked("stand_up") /\ ~Invoked("walk_square")
             /\ sent = <<>> /\ ~powered /\ ~standing
             /\ pending = "ret1"
             /\ pc = "done" => exitCode = 1

\* C5: the steps invoked form a prefix of the fixed sequence, each invoked
\* only after every step before it returned success; inside walk_square the
\* pose is read before the waypoints are computed and the waypoints are
\* computed before any is submitted.
C5_StepsFormPrefix ==
    /\ \A i \in 1..Len(calls) :
          IsStep(calls[i].step)
              => /\ i <= Len(StepOrder)
                 /\ calls[i].step = StepOrder[i]
                 /\ \A j \in 1..(i - 1) : calls[j].ret = "True"
    /\ wpc # "idle" => Invoked("walk_square")
    /\ trajectory_points # <<>> => vision_T_body = devPose
    /\ sent # <<>> => /\ Len(trajectory_points) >= Len(sent)
                      /\ \A k \in 1..Len(sent) : sent[k] = Goal(trajectory_points[k])
C5_Witness ==
    /\ pc = "walking" /\ Len(sent) = 5
    /\ \A j \in 1..(Len(calls) - 1) : calls[j].ret = "True"

\* The i-th call is a step that returned False or raised.
Failed(i) == IsStep(calls[i].step) /\ calls[i].ret \notin {"True", "running"}

\* C6: no step is retried: each step is invoked at most once in a run, and
\* once a step has reported failure (returned False or raised) the only
\* call that follows is the cleanup call, and a step that failed before
\* walk_square leaves the walk unstarted.
C6_NoRetry ==
    /\ \A i \in 1..Len(StepOrder) : Count(StepOrder[i]) <= 1
    /\ \A i \in 1..Len(calls) :
          Failed(i) => \A j \in (i + 1)..Len(calls) : ~IsStep(calls[j].step)
    /\ \A i \in 1..Len(calls) :
          (Failed(i) /\ calls[i].step # "walk_square")
              => (wpc = "idle" /\ sent = <<>>)
C6_Witness ==
    /\ pc = "done"
    /\ \E i \in 1..Len(calls) : calls[i].step = "power_on" /\ calls[i].ret = "False"
    /\ calls[Len(calls)].step = "disconnect"

\* All nine steps returned True and the cleanup call came back.
AllSucceeded ==
    /\ Len(calls) = Len(StepOrder) + 1
    /\ \A i \in 1..Len(StepOrder) : calls[i].ret = "True"
    /\ calls[Len(calls)].ret = "None"

\* C7: main() returns 0 exactly when every step returned success and no
\* exception or interrupt occurred; in every other run of main() the
\* process result is 1.
C7_ResultZeroIffAllSucceeded ==
    MainRan => /\ (outcome = "ret0") <=> AllSucceeded
               /\ AllSucceeded => exitCode = 0
               /\ ~AllSucceeded => exitCode = 1

\* C19: started with side length <= 0, or with velocity <= 0 or > 2.0
\* (velocities are in tenths of m/s), the program exits with code 1 and no
\* step of the connection is ever invoked; with side length > 0 and velocity
\* in (0, 2.0] validation passes and main() runs, starting with connect(),
\* on those values.
C19_ValidationGuardsMain ==
    /\ (side_length <= 0 \/ max_velocity <= 0 \/ max_velocity > 20)
          => /\ calls = <<>> /\ wpc = "idle" /\ ~sdk /\ ~robot
             /\ pc \in {"validate", "done"}
             /\ pc = "done" => (outcome = "invalid" /\ exitCode = 1)
    /\ (side_length > 0 /\ max_velocity > 0 /\ max_velocity <= 20)
          => /\ outcome # "invalid"
             /\ pc \notin {"validate", "connect"}
                   => (calls # <<>> /\ calls[1].step = "connect")
C19_Witness ==
    /\ pc = "done" /\ outcome = "invalid" /\ exitCode = 1
    /\ side_length > 0 /\ max_velocity > 20 /\ calls = <<>>

\* The step was invoked and returned True.
ReturnedTrue(step) ==
    \E i \in 1..Len(calls) : calls[i].step = step /\ calls[i].ret = "True"

\* C21: in every run of main() a motion command (the stand command of
\* stand_up(), or a waypoint command of walk_square) is submitted only from
\* a state in which the lease is held through the connection's keep-alive
\* (acquired and not released), power_on() and time_sync() have returned
\* True, and disconnect() has not been started.
C21_MotionOnlyWhenReady ==
    [][(\/ Len(sent') > Len(sent)
        \/ (Len(calls') > Len(calls) /\ calls'[Len(calls')].step = "stand_up"))
          => (/\ leaseOwner # 0 /\ leaseOwner = lease_keepalive
              /\ returns[leaseOwner] = 0
              /\ ReturnedTrue("acquire_lease")
              /\ ReturnedTrue("power_on") /\ powered
              /\ ReturnedTrue("time_sync") /\ synced
              /\ ~Invoked("disconnect") /\ pc \notin {"finally", "done"})]_vars
C21_Witness ==
    /\ pc = "walking" /\ Len(sent) = 5 /\ standing
    /\ leaseOwner # 0 /\ leaseOwner = lease_keepalive
    /\ ReturnedTrue("power_on") /\ ReturnedTrue("time_sync")

\* ---------------------------------- claims about the connection object
\* C8: disconnect() is idempotent: from any reachable state, a disconnect()
\* call that directly follows a disconnect() call leaves the fields of the
\* connection object as the first call left them and releases nothing a
\* second time (it neither runs a keep-alive's __exit__ nor returns a lease).
C8_DisconnectIdempotent ==
    [][(/\ lastCall.op = "disconnect"
        /\ lastCall'.op = "disconnect"
        /\ lastCall'.n = lastCall.n + 1)
          => (/\ connVars' = connVars
              /\ exitCalls' = exitCalls
              /\ returns' = returns)]_vars

\* C9: from any state in which self.robot is set, a disconnect() call runs
\* both of its steps, the lease release and robot.shutdown(), also when the
\* lease release raises; when the call comes back no keep-alive is left in
\* the object and the session is shut down.
C9_DisconnectAlwaysCleansUp ==
    (lastCall.op = "disconnect" /\ robot)
        => /\ lastCall.shut
           /\ lastCall.ret = "None" => (lease_keepalive = 0 /\ ~sessionUp)

\* C18: authenticate() attempts the interactive login if and only if the
\* provided credentials were rejected as an invalid login; it returns True
\* exactly when the provided credentials were accepted or the interactive
\* login succeeded; after any other error of the first attempt it returns
\* False, without raising and without the interactive login.
C18_FallbackOnlyOnInvalidLogin ==
    lastCall.op = "authenticate"
        => /\ (lastCall.second # "none") <=> (lastCall.first = "invalid")
           /\ (lastCall.ret = "True")
                 <=> \/ lastCall.first = "ok"
                     \/ (lastCall.first = "invalid" /\ lastCall.second = "ok")
           /\ lastCall.first = "err"
                 => (lastCall.ret = "False" /\ lastCall.second = "none")
           /\ lastCall.ret = "True" => authed
C18_Witness ==
    /\ lastCall.op = "authenticate" /\ lastCall.first = "invalid"
    /\ lastCall.second = "ok" /\ lastCall.ret = "True" /\ authed

\* ------------------------------------------- claims about the waypoints
\* A world position (units of 1/T.d) expressed relative to pose T: the
\* inverse rigid transform, which yields T.d^2 times the body offset.
RelativeTo(T, p) ==
    <<T.c * (p.x - T.d * T.px) + T.s * (p.y - T.d * T.py),
      T.c * (p.y - T.d * T.py) - T.s * (p.x - T.d * T.px)>>
SquareCorners(L) == << <<0, 0>>, <<L, 0>>, <<L, L>>, <<0, L>>, <<0, 0>> >>

\* C10: for any side length L > 0 and any pose, the waypoint computation of
\* either walk method yields exactly 5 waypoints whose positions relative to
\* the pose snapshot are (0,0), (L,0), (L,L), (0,L), (0,0) in that order,
\* all mapped by the one rigid transform of the snapshot, the first and the
\* last position being identical.
C10_FiveWaypointsClosedSquare ==
    trajectory_points # <<>>
        => /\ Len(trajectory_points) = 5
           /\ vision_T_body = devPose
           /\ \A i \in 1..Len(trajectory_points) :
                 RelativeTo(vision_T_body, trajectory_points[i])
                    = <<vision_T_body.d * vision_T_body.d * SquareCorners(side_length)[i][1],
                        vision_T_body.d * vision_T_body.d * SquareCorners(side_length)[i][2]>>
           /\ trajectory_points[1].x = trajectory_points[5].x
           /\ trajectory_points[1].y = trajectory_points[5].y
C10_Witness ==
    /\ strategy = "batched" /\ Len(trajectory_points) = 5
    /\ side_length = MaxSide
    /\ vision_T_body.c # 0 /\ vision_T_body.s # 0 /\ vision_T_body.px # 0
    /\ trajectory_points[3].x # trajectory_points[2].x
    /\ trajectory_points[3].y # trajectory_points[2].y

\* The body-relative offset from the i-th corner of the square to the next.
Offset(L, i) ==
    <<SquareCorners(L)[i + 1][1] - SquareCorners(L)[i][1],
      SquareCorners(L)[i + 1][2] - SquareCorners(L)[i][2]>>

\* C11: for any side length L > 0, in either walk method, the heading of
\* each of the first four waypoints is atan2(dy, dx) of the body-relative
\* offset to the next waypoint, i.e. the directions +x, +y, -x, -y (0, 1, 2
\* and -1 quarter turns), and the heading of the fifth waypoint is 0.
C11_HeadingsLookAhead ==
    trajectory_points # <<>>
        => /\ \A i \in 1..4 :
                 trajectory_points[i].angle
                    = atan2(Offset(side_length, i)[2], Offset(side_length, i)[1])
           /\ <<trajectory_points[1].angle, trajectory_points[2].angle,
                trajectory_points[3].angle, trajectory_points[4].angle>> = <<0, 1, 2, -1>>
           /\ trajectory_points[5].angle = 0
C11_Witness ==
    /\ strategy = "incremental" /\ Len(trajectory_points) = 5
    /\ side_length = MaxSide
    /\ trajectory_points[4].angle = -1 /\ trajectory_points[5].angle = 0

\* The unit vector of a heading given in quarter turns, in the frame the
\* heading is expressed in.
Direction(q) ==
    CASE q = 0 -> <<1, 0>>
      [] q = 1 -> <<0, 1>>
      [] q = 2 -> <<-1, 0>>
      [] q = -1 -> <<0, -1>>

\* A heading of q quarter turns in the world-fixed frame points from world
\* position a toward world position b: the direction vector is parallel to
\* b - a and has the same sense.
PointsToward(q, a, b) ==
    /\ Direction(q)[1] * (b.y - a.y) - Direction(q)[2] * (b.x - a.x) = 0
    /\ Direction(q)[1] * (b.x - a.x) + Direction(q)[2] * (b.y - a.y) > 0

\* C12: for any pose of the device, also one whose yaw in the world-fixed
\* frame is not zero, the heading walk_square submits (in the world-fixed
\* frame) with each waypoint at index 0..3 points from that waypoint's world
\* position toward the next waypoint's world position.
C12_WorldHeadingPointsToNext ==
    strategy = "incremental"
        => \A i \in 1..Len(sent) :
              i <= 4 => PointsToward(sent[i].angle, trajectory_points[i],
                                     trajectory_points[i + 1])

\* C13: for any total_time > 0, in either walk method, the waypoint at index
\* i (0..4) is assigned the relative deadline (i+1) * total_time / 5, so the
\* deadlines are strictly increasing and the last one equals total_time;
\* for total_time = 20 they are 4, 8, 12, 16, 20.
C13_Deadlines ==
    trajectory_points # <<>>
        => /\ \A i \in 1..4 :
                 FloatLess(trajectory_points[i].time, trajectory_points[i + 1].time)
           /\ trajectory_points[5].time = DecimalFloat(total_time)
           /\ total_time = 10 * MainTotalTime
                 => [i \in 1..5 |-> trajectory_points[i].time]
                       = <<FloatOf(4), FloatOf(8), FloatOf(12), FloatOf(16), FloatOf(20)>>
           /\ \A i \in 1..5 :
                 trajectory_points[i].time
                    = FloatDiv(FloatMul(DecimalFloat(total_time), i), 5)

\* --------------------------------------- claims about the two strategies
\* The goals (position and heading) of a sequence of planned waypoints.
Goals(points) == [i \in 1..Len(points) |-> Goal(points[i])]

\* C14: for the same pose, side length and total time, the sequence of
\* waypoints (position and heading, in order) walk_square has delivered to
\* the device once its submissions are done is the sequence planned by
\* walk_square_trajectory, and the sequence walk_square_trajectory has
\* delivered with its command is the sequence walk_square plans and
\* delivers.
C14_SameWaypointsDelivered ==
    /\ (strategy = "incremental" /\ wpc = "block")
          => sent = Goals(TrajPoints(vision_T_body, side_length, total_time))
    /\ (strategy = "batched" /\ wpc = "wait")
          => sent = Goals(WalkPoints(vision_T_body, side_length, total_time))

\* C15: walk_square_trajectory submits exactly one motion command per
\* invocation (never more than one, and one once it waits or has returned
\* True), the waypoints that command carries to the device are all five
\* planned waypoints in order, and the call then blocks once on that
\* command with a timeout of total_time + 5 seconds.
C15_BatchedCarriesAllWaypoints ==
    strategy = "batched"
        => /\ Len(ends) <= 1
           /\ (wpc = "wait" \/ walkRet = "True")
                 => /\ Len(ends) = 1
                    /\ sent = Goals(trajectory_points)
           /\ walkRet = "True"
                 => /\ Len(waits) = 1
                    /\ waits[1].id = command_id
                    /\ waits[1].timeout_sec = total_time + 10 * 5

\* walk_square went through all its submissions and came back without
\* raising an interrupt.
WalkedThrough ==
    strategy = "incremental" /\ wpc = "returned" /\ Len(sent) = 5 /\ walkRet # "kbi"

\* C16: walk_square submits the five waypoints as five separate commands in
\* index order, one after the other, and then blocks exactly once, after all
\* five submissions, on the command id the last submission returned, with a
\* timeout of total_time + 5 seconds.
C16_IncrementalOrderAndSingleWait ==
    strategy = "incremental"
        => /\ Len(sent) <= Len(trajectory_points)
           /\ Len(ends) = Len(sent)
           /\ \A i \in 1..Len(sent) : sent[i] = Goal(trajectory_points[i])
           /\ Len(waits) <= 1
           /\ waits # <<>>
                 => /\ Len(sent) = 5
                    /\ waits[1].id = command_id
                    /\ waits[1].timeout_sec = total_time + 10 * 5
           /\ WalkedThrough => Len(waits) = 1

\* C17: walk_square returns True only if all five submissions succeeded and
\* the blocking wait on the last command completed without timeout, whatever
\* command id the device returned; when a submission raises, no later
\* waypoint is submitted and the result is not True.
C17_TrueOnlyAfterCompletedWait ==
    strategy = "incremental"
        => /\ walkRet = "True"
                 => /\ Len(sent) = 5
                    /\ Len(waits) = 1
                    /\ waits[1].id = command_id
                    /\ waits[1].ret = "True"
           /\ (wpc = "returned" /\ Len(sent) < 5) => walkRet # "True"

\* C20: when walk_square returns True the device, which pursues only the most
\* recently submitted command, has walked the square: no waypoint command
\* was superseded by the next submission before the device had reached its
\* waypoint, so the device has been at the corners (L,0), (L,L), (0,L) (the
\* goals of the second, third and fourth command) in that order, and it has
\* finished at its starting position.
C20_DeviceWalksSquare ==
    strategy = "incremental"
        => /\ \A n \in 1..(Len(sent) - 1) : n \in reached
           /\ walkRet = "True"
                 => /\ {2, 3, 4} \subseteq reached
                    /\ moved = <<0, 0>>

\* C22: in one invocation of walk_square the device pose is queried exactly
\* once, before any waypoint is submitted, and all five waypoints are computed
\* from that single snapshot: every waypoint submitted in the loop is the one
\* computed from the pose the device had when it was queried, wherever the
\* device has moved to between the submissions. SnapshotPosition(i) is the
\* i-th corner of the square laid out from the pose the device had when the
\* invocation began.
SnapshotPosition(i) ==
    transform_point(devPose, square_points(side_length)[i][1],
                    square_points(side_length)[i][2])
C22_SinglePoseSnapshot ==
    strategy = "incremental"
        => /\ stateQueries <= 1
           /\ sent # <<>> => stateQueries = 1
           /\ trajectory_points # <<>>
                 => /\ stateQueries = 1
                    /\ vision_T_body = devPose
                    /\ Len(trajectory_points) = 5
                    /\ \A i \in 1..5 :
                          <<trajectory_points[i].x, trajectory_points[i].y>>
                              = SnapshotPosition(i)
           /\ \A i \in 1..Len(sent) : <<sent[i].x, sent[i].y>> = SnapshotPosition(i)

\* The device has moved away from where it was queried while walk_square
\* went on to submit all five waypoints.
C22_Witness ==
    /\ strategy = "incremental" /\ Len(sent) = 5 /\ stateQueries = 1
    /\ moved # <<0, 0>>
    /\ \E n \in 2..5 : n - 1 \in reached /\ sent[n] # sent[n - 1]

====
